---- MODULE Spec2Model ----
(***************************************************************************)
(* DataHaven relayer: multi-chain event ingestion (EventListener,          *)
(* Database.events, RedisQueue.add) and the storage-request workflow       *)
(* (RelayerService.processStorageRequest, POST /upload, POST /retry,       *)
(* Bull's retry policy).                                                   *)
(*                                                                         *)
(* Two specifications share this module:                                   *)
(*   SpecIngest    the chain watchers, the finality waits, handleEvent     *)
(*   SpecWorkflow  the request store, the storage-request queue and the    *)
(*                 job handler                                             *)
(***************************************************************************)
EXTENDS Integers, Sequences, FiniteSets, TLC

None == "none"

(***************************************************************************)
(* Program constants.                                                      *)
(***************************************************************************)
reorgDepth == 12
solanaReorgDepth == 32
attempts == 3

(***************************************************************************)
(* Bounds of the model.                                                    *)
(***************************************************************************)
\* listener callbacks that fire during one behaviour
MaxDeliver == 2
\* highest Ethereum block height a poll observes
MaxBlock == 13
\* highest confirmation count getSignatureStatus reports
MaxConf == 32

(***************************************************************************)
(* The chains' intent logs.  Ethereum: transaction t1 emits two            *)
(* StorageRequested logs (log index 0 and 1), transaction t2 one           *)
(* RetrievalRequested log.  Solana: the transaction with signature s1      *)
(* carries three program log lines.                                        *)
(***************************************************************************)
EthLog ==
    [ L1 |-> [tx |-> "t1", logIndex |-> 0, type |-> "StorageRequested",
              requestId |-> "r1", blockNumber |-> 1],
      L2 |-> [tx |-> "t1", logIndex |-> 1, type |-> "StorageRequested",
              requestId |-> "r2", blockNumber |-> 1],
      L3 |-> [tx |-> "t2", logIndex |-> 0, type |-> "RetrievalRequested",
              requestId |-> "r1", blockNumber |-> 1] ]

EthLogs == DOMAIN EthLog
EthTxs == {EthLog[l].tx : l \in EthLogs}

SolLogMessages ==
    [ s1 |-> << [kind |-> "StorageRequested", requestId |-> "ra"],
                [kind |-> "RetrievalRequested", requestId |-> "ra"],
                [kind |-> "StorageRequested", requestId |-> "rb"] >> ]

SolSignatures == DOMAIN SolLogMessages

\* block heights the polls of getBlockNumber can observe
BlockHeights == {1} \cup (reorgDepth .. MaxBlock)
\* confirmation counts getSignatureStatus can report (0: value is null)
SolConfs == {0} \cup ((solanaReorgDepth - 1) .. MaxConf)

Deliveries == 1 .. MaxDeliver

(***************************************************************************)
(* Event objects handed to handleEvent.                                    *)
(***************************************************************************)
\* the object listenEthereum builds from a decoded log
EthereumEvent(l) ==
    IF EthLog[l].type = "StorageRequested"
    THEN [type |-> "StorageRequested", requestId |-> EthLog[l].requestId,
          storageRequestId |-> None, transactionHash |-> EthLog[l].tx]
    ELSE [type |-> "RetrievalRequested", requestId |-> None,
          storageRequestId |-> EthLog[l].requestId,
          transactionHash |-> EthLog[l].tx]

\* the log line is ignored: fixed placeholder fields
parseSolanaStorageRequested(log) ==
    [type |-> "StorageRequested", requestId |-> "parsed-request-id",
     storageRequestId |-> None, transactionHash |-> None]

parseSolanaRetrievalRequested(log) ==
    [type |-> "RetrievalRequested", requestId |-> None,
     storageRequestId |-> "parsed-storage-id", transactionHash |-> None]

RECURSIVE parseSolanaEvents(_)
parseSolanaEvents(logs) ==
    IF logs = << >> THEN << >>
    ELSE LET log == Head(logs)
             rest == parseSolanaEvents(Tail(logs))
         IN  IF log.kind = "StorageRequested"
             THEN <<parseSolanaStorageRequested(log)>> \o rest
             ELSE IF log.kind = "RetrievalRequested"
             THEN <<parseSolanaRetrievalRequested(log)>> \o rest
             ELSE rest

\* `${chain}-${event.transactionHash || event.requestId}`
EventId(chain, event) ==
    << chain,
       IF event.transactionHash # None THEN event.transactionHash
       ELSE IF event.requestId # None THEN event.requestId
       ELSE "undefined" >>

\* every (chain, event) pair a listener can hand to handleEvent
Handed ==
    {<<"ethereum", EthereumEvent(l)>> : l \in EthLogs} \cup
    UNION { {<<"solana", parseSolanaEvents(SolLogMessages[s])[i]>> :
                i \in 1 .. Len(parseSolanaEvents(SolLogMessages[s]))} :
            s \in SolSignatures }

EventIds == {EventId(h[1], h[2]) : h \in Handed}

VARIABLES
    \* ---- the chains
    ethBlock,       \* Ethereum block height
    ethReorged,     \* Ethereum transactions dropped by a reorganization
    solConf,        \* confirmations of each Solana signature
    \* ---- EventListener
    processedTxs,   \* in-memory set of processed Solana signatures
    watch,          \* one record per listener callback: pc, source, index
    lostToError,    \* source of the last callback that ended in the catch of
                    \* an RPC error
    \* ---- Database.events, RedisQueue.add
    events,         \* events collection: number of documents per handed event
    workflowJobs,   \* jobs added to storage-request / retrieval-request
    fraudJobs,      \* jobs added to fraud-check
    \* ---- Database.storage_requests, Database.retrieval_requests
    storageRequests,
    retrievalRequests,
    \* ---- the storage-request queue (Bull) and its single worker
    jobs,            \* one record per job: state, data, attemptsMade
    handler,         \* the running processStorageRequest: pc and job
    admitted,        \* requests whose StorageRequested event was admitted
    originChain,     \* the origin chain of each request
    eventDataHash,   \* the dataHash of each request's StorageRequested event
    originConfirmed, \* requests whose receipt the origin contract accepted
    \* ---- the origin chain's view
    markFailedCalls, \* calls of markFailedOnOrigin per request
    \* ---- Walrus
    walrusBlobs,     \* requests whose ciphertext walrusClient.store has written
    \* ---- two relayer processes consuming the same storage-request queue
    executions,      \* per consumer: pc of processStorageRequest, status read
    \* ---- the fraud gate: the fields of storage_requests its queries read
    userRequests,    \* documents in insertion order: user, dataHash, createdAt
    clock,           \* Date.now() in ms
    verdict,         \* result of checkStorageRequest per request
    \* ---- ReceiptGenerator and the origin contract
    receipts,        \* receipts createReceipt has returned
    onchainStatus,   \* Request.status of the request in DataHaven.sol
    reverted,        \* receipts whose verifyReceipt transaction reverted
    \* ---- the retrieval-request worker
    retrieval,       \* the retrieval_requests document of the retrieval
    rhandler,        \* the running processRetrievalRequest and its locals
    \* ---- the SIGTERM / SIGINT handler
    shutdown,        \* the call of the shutdown function that is next
    \* ---- an origin contract
    contract,        \* the deployed variant and its state: relayer, paused,
                     \* count and the funds it holds
    requests,        \* the Request of each request id
    refunds,         \* per request id, the transfers markFailed has made
    authorisedBy,    \* per request id, the account whose call or signature
                     \* made the last status change
    \* ---- the Sui coordinator
    coordinator,     \* CoordinatorState: paused, supported_chains
    coordRequest,    \* the StorageRequest object of the request
    retrievalRecords, \* the RetrievalRequest objects validate_access shared
    submission       \* the relayer's last call of process_storage_request

ingestVars == << ethBlock, ethReorged, solConf, processedTxs, watch,
                 lostToError, events, workflowJobs, fraudJobs >>
storeVars == << storageRequests, retrievalRequests >>
fraudVars == << userRequests, clock, verdict >>
scenarioVars == << executions, fraudVars >>
sideVars == << walrusBlobs, scenarioVars >>
workflowVars == << jobs, handler, admitted, originChain, eventDataHash,
                  originConfirmed, markFailedCalls, sideVars >>
receiptVars == << receipts, onchainStatus, reverted >>
retrievalVars == << retrieval, rhandler >>
contractVars == << contract, requests, refunds, authorisedBy >>
coordVars == << coordinator, coordRequest, retrievalRecords, submission >>
chainVars == << contractVars, coordVars >>
otherVars == << receiptVars, retrievalVars, shutdown, chainVars >>
restVars == << storeVars, workflowVars, otherVars >>
vars == << ingestVars, storeVars, workflowVars, otherVars >>

Idle == [pc |-> "idle", src |-> None, idx |-> 0]
Done == [pc |-> "done", src |-> None, idx |-> 0]

\* request ids a storage_requests document can carry
StoreKeys == {h[2].requestId : h \in {x \in Handed : x[2].type = "StorageRequested"}}
NoDoc == [status |-> "absent", encryptedDataBase64 |-> FALSE,
          walrusBlobId |-> None, suiTxHash |-> None]

RECURSIVE SumOver(_, _)
SumOver(f, S) ==
    IF S = {} THEN 0
    ELSE LET x == CHOOSE y \in S : TRUE IN f[x] + SumOver(f, S \ {x})

\* events.countDocuments({ id: eventId })
CountDocuments(coll, id) ==
    SumOver(coll, {h \in DOMAIN coll : EventId(h[1], h[2]) = id})

eventExists(coll, id) == CountDocuments(coll, id) > 0

\* events.insertOne rejects a second document with the same id:
\* createIndex({ id: 1 }, { unique: true })
NoUniqueIndex(coll, id) == FALSE
DuplicateKey(coll, id) == CountDocuments(coll, id) > 0

\* waitForEthereumConfirmations: currentBlock >= blockNumber + reorgDepth
EthFinalNoDepth(currentBlock, blockNumber) == currentBlock >= blockNumber
EthFinal(currentBlock, blockNumber) == currentBlock >= blockNumber + reorgDepth

\* waitForSolanaConfirmations leaves its loop: not (confirmations < 32)
SolFinal(confirmations) == ~(confirmations < solanaReorgDepth)

IsEth(w) == w.src \in EthLogs
IsSol(w) == w.src \in SolSignatures
SolEvents(s) == parseSolanaEvents(SolLogMessages[s])

\* the (chain, event) pair the callback hands to handleEvent
HandedBy(w) ==
    IF IsEth(w) THEN <<"ethereum", EthereumEvent(w.src)>>
    ELSE <<"solana", SolEvents(w.src)[w.idx]>>

InHandleEvent(w) == w.pc \in {"exists", "save", "addJob", "addFraud"}

\* handleEvent returned normally: the Ethereum callback ends, the Solana
\* callback goes on with the next parsed event
AfterHandle(w) ==
    IF IsSol(w) /\ w.idx < Len(SolEvents(w.src))
    THEN [w EXCEPT !.pc = "exists", !.idx = @ + 1]
    ELSE Done

ProcessedAfter(w) ==
    IF IsSol(w) /\ w.idx = Len(SolEvents(w.src))
    THEN processedTxs \cup {w.src}
    ELSE processedTxs

TxBlock(t) == CHOOSE b \in BlockHeights : \E l \in EthLogs :
                 EthLog[l].tx = t /\ EthLog[l].blockNumber = b

(***************************************************************************)
(* The chains.                                                             *)
(***************************************************************************)
AdvanceEth ==
    /\ \E h \in BlockHeights : h > ethBlock /\ ethBlock' = h
    /\ UNCHANGED << ethReorged, solConf, processedTxs, watch,
                    lostToError, events, workflowJobs, fraudJobs, restVars >>

\* a transaction whose block is not yet reorgDepth deep is dropped while a
\* callback waits for the finality of one of its logs
EthReorg(t) ==
    /\ t \notin ethReorged
    /\ \E d \in Deliveries : watch[d].pc = "ethWait" /\ EthLog[watch[d].src].tx = t
    /\ ethBlock < TxBlock(t) + reorgDepth
    /\ ethReorged' = ethReorged \cup {t}
    /\ UNCHANGED << ethBlock, solConf, processedTxs, watch,
                    lostToError, events, workflowJobs, fraudJobs, restVars >>

AdvanceSol(s) ==
    /\ \E c \in SolConfs : c > solConf[s] /\ solConf' = [solConf EXCEPT ![s] = c]
    /\ UNCHANGED << ethBlock, ethReorged, processedTxs, watch,
                    lostToError, events, workflowJobs, fraudJobs, restVars >>

(***************************************************************************)
(* EventListener.listenEthereum: the contract.on callbacks.                *)
(***************************************************************************)
EthDeliver(d, l) ==
    /\ watch[d] = Idle
    /\ EthLog[l].tx \notin ethReorged
    /\ watch' = [watch EXCEPT ![d] = [pc |-> "ethWait", src |-> l, idx |-> 0]]
    /\ UNCHANGED << ethBlock, ethReorged, solConf, processedTxs,
                    lostToError, events, workflowJobs, fraudJobs, restVars >>

\* one turn of the loop of waitForEthereumConfirmations
EthPoll(d) ==
    /\ watch[d].pc = "ethWait"
    /\ LET currentBlock == ethBlock IN
       IF EthFinal(currentBlock, EthLog[watch[d].src].blockNumber)
       THEN watch' = [watch EXCEPT ![d].pc = "exists"]
       ELSE UNCHANGED watch
    /\ UNCHANGED << ethBlock, ethReorged, solConf, processedTxs,
                    lostToError, events, workflowJobs, fraudJobs, restVars >>

\* getBlockNumber rejects: the callback's catch logs it and the callback ends
EthRpcError(d) ==
    /\ watch[d].pc = "ethWait"
    /\ watch' = [watch EXCEPT ![d] = Done]
    /\ lostToError' = watch[d].src
    /\ UNCHANGED << ethBlock, ethReorged, solConf, processedTxs,
                    events, workflowJobs, fraudJobs, restVars >>

(***************************************************************************)
(* EventListener.listenSolana / processSolanaLogs.                         *)
(***************************************************************************)
SolDeliver(d, s) ==
    /\ watch[d] = Idle
    /\ watch' = [watch EXCEPT ![d] =
                    IF s \in processedTxs THEN Done
                    ELSE [pc |-> "solWait", src |-> s, idx |-> 0]]
    /\ UNCHANGED << ethBlock, ethReorged, solConf, processedTxs,
                    lostToError, events, workflowJobs, fraudJobs, restVars >>

\* one turn of the loop of waitForSolanaConfirmations
SolPoll(d) ==
    /\ watch[d].pc = "solWait"
    /\ LET confirmations == solConf[watch[d].src] IN
       IF SolFinal(confirmations)
       THEN watch' = [watch EXCEPT ![d].pc = "getTx"]
       ELSE UNCHANGED watch
    /\ UNCHANGED << ethBlock, ethReorged, solConf, processedTxs,
                    lostToError, events, workflowJobs, fraudJobs, restVars >>

\* getSignatureStatus or getTransaction rejects: caught in the onLogs callback
SolRpcError(d) ==
    /\ watch[d].pc \in {"solWait", "getTx"}
    /\ watch' = [watch EXCEPT ![d] = Done]
    /\ lostToError' = watch[d].src
    /\ UNCHANGED << ethBlock, ethReorged, solConf, processedTxs,
                    events, workflowJobs, fraudJobs, restVars >>

\* getTransaction: null ends the callback, otherwise the log lines are parsed
SolGetTransaction(d) ==
    /\ watch[d].pc = "getTx"
    /\ \E tx \in {"null", "found"} :
         IF tx = "null"
         THEN /\ watch' = [watch EXCEPT ![d] = Done]
              /\ UNCHANGED processedTxs
         ELSE IF Len(SolEvents(watch[d].src)) = 0
         THEN /\ watch' = [watch EXCEPT ![d] = Done]
              /\ processedTxs' = processedTxs \cup {watch[d].src}
         ELSE /\ watch' = [watch EXCEPT ![d].pc = "exists", ![d].idx = 1]
              /\ UNCHANGED processedTxs
    /\ UNCHANGED << ethBlock, ethReorged, solConf,
                    lostToError, events, workflowJobs, fraudJobs, restVars >>

(***************************************************************************)
(* EventListener.handleEvent, one step per await.                          *)
(***************************************************************************)
HandleExists(d) ==
    /\ watch[d].pc = "exists"
    /\ LET h == HandedBy(watch[d])
           eventId == EventId(h[1], h[2])
       IN  IF eventExists(events, eventId)
           THEN /\ watch' = [watch EXCEPT ![d] = AfterHandle(watch[d])]
                /\ processedTxs' = ProcessedAfter(watch[d])
           ELSE /\ watch' = [watch EXCEPT ![d].pc = "save"]
                /\ UNCHANGED processedTxs
    /\ UNCHANGED << ethBlock, ethReorged, solConf,
                    lostToError, events, workflowJobs, fraudJobs, restVars >>

\* saveEvent: insertOne; a duplicate key error leaves handleEvent and is
\* caught by the listener callback
HandleSave(d) ==
    /\ watch[d].pc = "save"
    /\ LET h == HandedBy(watch[d])
           eventId == EventId(h[1], h[2])
       IN  IF DuplicateKey(events, eventId)
           THEN /\ watch' = [watch EXCEPT ![d] = Done]
                /\ UNCHANGED events
           ELSE /\ events' = [events EXCEPT ![h] = @ + 1]
                /\ watch' = [watch EXCEPT ![d].pc = "addJob"]
    /\ UNCHANGED << ethBlock, ethReorged, solConf, processedTxs,
                    lostToError, workflowJobs, fraudJobs, restVars >>

\* queue.add('storage-request' | 'retrieval-request', {...event, originChain})
HandleAddJob(d) ==
    /\ watch[d].pc = "addJob"
    /\ workflowJobs' = [workflowJobs EXCEPT ![HandedBy(watch[d])] = @ + 1]
    /\ watch' = [watch EXCEPT ![d].pc = "addFraud"]
    /\ UNCHANGED << ethBlock, ethReorged, solConf, processedTxs,
                    lostToError, events, fraudJobs, restVars >>

\* queue.add('fraud-check', {eventId, chain, event})
HandleAddFraud(d) ==
    /\ watch[d].pc = "addFraud"
    /\ fraudJobs' = [fraudJobs EXCEPT ![HandedBy(watch[d])] = @ + 1]
    /\ watch' = [watch EXCEPT ![d] = AfterHandle(watch[d])]
    /\ processedTxs' = ProcessedAfter(watch[d])
    /\ UNCHANGED << ethBlock, ethReorged, solConf,
                    lostToError, events, workflowJobs, restVars >>

\* the relayer process stops and starts again: callbacks in flight and the
\* in-memory processedTxs are gone, MongoDB and Redis keep their contents
Restart ==
    /\ \/ \E d \in Deliveries : watch[d].pc \notin {"idle", "done"}
       \/ processedTxs # {}
    /\ watch' = [d \in Deliveries |-> IF watch[d] = Idle THEN Idle ELSE Done]
    /\ processedTxs' = {}
    /\ UNCHANGED << ethBlock, ethReorged, solConf, lostToError, events,
                    workflowJobs, fraudJobs, restVars >>

InitIngest ==
    /\ ethBlock = 1
    /\ ethReorged = {}
    /\ solConf = [s \in SolSignatures |-> 0]
    /\ processedTxs = {}
    /\ watch = [d \in Deliveries |-> Idle]
    /\ lostToError = None
    /\ events = [h \in Handed |-> 0]
    /\ workflowJobs = [h \in Handed |-> 0]
    /\ fraudJobs = [h \in Handed |-> 0]

InitStore ==
    /\ storageRequests = [r \in StoreKeys |-> NoDoc]
    /\ retrievalRequests = {}

NextIngest ==
    \/ AdvanceEth
    \/ \E t \in EthTxs : EthReorg(t)
    \/ \E s \in SolSignatures : AdvanceSol(s)
    \/ \E d \in Deliveries, l \in EthLogs : EthDeliver(d, l)
    \/ \E d \in Deliveries : EthPoll(d)
    \/ \E d \in Deliveries : EthRpcError(d)
    \/ \E d \in Deliveries, s \in SolSignatures : SolDeliver(d, s)
    \/ \E d \in Deliveries : SolPoll(d)
    \/ \E d \in Deliveries : SolRpcError(d)
    \/ \E d \in Deliveries : SolGetTransaction(d)
    \/ \E d \in Deliveries : HandleExists(d)
    \/ \E d \in Deliveries : HandleSave(d)
    \/ \E d \in Deliveries : HandleAddJob(d)
    \/ \E d \in Deliveries : HandleAddFraud(d)
    \/ Restart

(***************************************************************************)
(* The storage-request workflow.                                           *)
(***************************************************************************)
\* jobs the storage-request queue holds during one behaviour
MaxJobs == 2

JobIds == 1 .. MaxJobs
WorkflowRequests == {"r1"}
\* origin chains a stored request can name
OriginChains == {"ethereum", "sui"}

\* relayer processes in the overlap scenario of two consumers
Consumers == {1, 2}
NoExecution == [pc |-> "idle", read |-> None, runs |-> 0]

NoJob == [state |-> "none", requestId |-> None, originChain |-> None,
          attemptsMade |-> 0, delay |-> 0]
\* error: what the try block threw, None outside the catch block;
\* readBack: the bytes walrusClient.store read back before it returned
IdleHandler == [pc |-> "idle", job |-> 0, error |-> None, readBack |-> None]

\* queue.add: a new job in the first free slot
FreeJob == CHOOSE j \in JobIds :
              jobs[j] = NoJob /\ \A k \in JobIds : k < j => jobs[k] # NoJob
HasFreeJob == \E j \in JobIds : jobs[j] = NoJob

AddJob(r, chain) ==
    [jobs EXCEPT ![FreeJob] = [state |-> "waiting", requestId |-> r,
                               originChain |-> chain, attemptsMade |-> 0,
                               delay |-> 0]]

\* Database.saveStorageRequest: insertOne under the unique requestId index
SaveStorageRequest(r) ==
    /\ storageRequests[r] = NoDoc
    /\ storageRequests' = [storageRequests EXCEPT ![r] =
                             [status |-> "pending", encryptedDataBase64 |-> FALSE,
                              walrusBlobId |-> None, suiTxHash |-> None]]
    /\ UNCHANGED << ingestVars, otherVars, retrievalRequests, workflowVars >>

\* the dataHash argument of initiateStorage, which the event carries: the
\* hash of the ciphertext that is uploaded later, or of other bytes
DataHashes == {<< "sha256", "c1" >>, << "sha256", "c0" >>}

\* handleEvent for an admitted StorageRequested event, as one step: the
\* event document is written once per event id and the job is added with
\* the event's fields as its data
AdmitStorageRequested(r) ==
    /\ r \notin admitted
    /\ originChain[r] \in {"ethereum", "solana"}
    /\ HasFreeJob
    /\ admitted' = admitted \cup {r}
    /\ jobs' = AddJob(r, originChain[r])
    /\ \E dataHash \in DataHashes :
           eventDataHash' = [eventDataHash EXCEPT ![r] = dataHash]
    /\ UNCHANGED << ingestVars, otherVars, storeVars, handler, originChain,
                    originConfirmed, markFailedCalls, sideVars >>

\* Database.uploadEncryptedData: updateOne({requestId}, {$set: ...})
uploadEncryptedData(doc) ==
    IF doc = NoDoc THEN doc
    ELSE [doc EXCEPT !.encryptedDataBase64 = TRUE, !.status = "uploaded"]

\* POST /upload
Upload(r) ==
    /\ storageRequests' = [storageRequests EXCEPT ![r] = uploadEncryptedData(@)]
    /\ storageRequests' # storageRequests
    /\ UNCHANGED << ingestVars, otherVars, retrievalRequests, workflowVars >>

\* POST /retry/:requestId
Retry(r) ==
    /\ storageRequests[r] # NoDoc
    /\ HasFreeJob
    /\ jobs' = AddJob(r, originChain[r])
    /\ UNCHANGED << ingestVars, otherVars, storeVars, handler, admitted,
                    originChain, eventDataHash,
                    originConfirmed, markFailedCalls,
                    sideVars >>

\* Database.updateStorageRequest: updateOne({requestId}, {$set: updates})
updateStorageRequest(doc, updates) ==
    IF doc = NoDoc THEN doc
    ELSE [f \in DOMAIN doc |-> IF f \in DOMAIN updates THEN updates[f]
                                                        ELSE doc[f]]

\* queue.process(handler) without a concurrency argument: one job at a time
JobStart(j) ==
    /\ handler = IdleHandler
    /\ jobs[j].state = "waiting"
    /\ jobs' = [jobs EXCEPT ![j].state = "active"]
    /\ handler' = [pc |-> "fraud", job |-> j, error |-> None,
                   readBack |-> None]
    /\ UNCHANGED << ingestVars, otherVars, storeVars, admitted, originChain,
                    eventDataHash, originConfirmed, markFailedCalls,
                    sideVars >>

\* the handler resolved: Bull moves the job to completed
JobCompleted(j) == [jobs EXCEPT ![j].state = "completed"]

\* backoff: {type: 'exponential', delay: 2000}: the delay Bull's built-in
\* exponential strategy gives the retry after attemptsMade failures
delay == 2000
backoff(attemptsMade) == (2 ^ attemptsMade - 1) * delay

\* the handler rejected: attempts: 3 with backoff, then the job is failed
JobFailedNoCap(j) ==
    [jobs EXCEPT ![j].attemptsMade = @ + 1,
                 ![j].state = "waiting",
                 ![j].delay = backoff(jobs[j].attemptsMade + 1)]
JobFailed(j) ==
    [jobs EXCEPT ![j].attemptsMade = @ + 1,
                 ![j].state = IF jobs[j].attemptsMade + 1 < attempts
                              THEN "waiting" ELSE "failed",
                 ![j].delay = IF jobs[j].attemptsMade + 1 < attempts
                              THEN backoff(jobs[j].attemptsMade + 1) ELSE @]

Req == jobs[handler.job].requestId
Chain == jobs[handler.job].originChain

\* fraudDetector.checkStorageRequest: its answer depends on the clock and on
\* the history of the user, either answer is possible
FraudCheck ==
    /\ handler.pc = "fraud"
    /\ \E isFraudulent \in BOOLEAN :
         handler' = [handler EXCEPT !.pc = IF isFraudulent THEN "fraudMark"
                                           ELSE "getRequest"]
    /\ UNCHANGED << ingestVars, otherVars, storeVars, jobs, admitted,
                    originChain, eventDataHash,
                    originConfirmed, markFailedCalls,
                    sideVars >>

\* markFailedOnOrigin(chain, requestId): one branch per supported chain sends
\* the markFailed transaction; any other chain falls through
markFailedOnOriginNoBranch(calls, chain, r) == calls
markFailedOnOrigin(calls, chain, r) ==
    IF chain \in {"ethereum", "polygon", "solana", "sui"}
    THEN [calls EXCEPT ![r] = @ + 1]
    ELSE calls

\* fraud path: markFailedOnOrigin, then return {success: false}; a throw of
\* markFailedOnOrigin lands in the catch block
FraudMarkFailed ==
    /\ handler.pc = "fraudMark"
    /\ markFailedCalls' = markFailedOnOrigin(markFailedCalls, Chain, Req)
    /\ \E ok \in BOOLEAN :
         IF ok THEN /\ handler' = IdleHandler
                    /\ jobs' = JobCompleted(handler.job)
         ELSE /\ handler' = [handler EXCEPT !.pc = "catchUpdate",
                                            !.error = "markFailed"]
              /\ UNCHANGED jobs
    /\ UNCHANGED << ingestVars, otherVars, storeVars, admitted, originChain,
                    eventDataHash, originConfirmed, sideVars >>

\* getStorageRequest; throw 'Encrypted data not uploaded'
GetRequest ==
    /\ handler.pc = "getRequest"
    /\ handler' = IF storageRequests[Req].encryptedDataBase64
                  THEN [handler EXCEPT !.pc = "store"]
                  ELSE [handler EXCEPT !.pc = "catchUpdate",
                                       !.error = "notUploaded"]
    /\ UNCHANGED << ingestVars, otherVars, storeVars, jobs, admitted,
                    originChain, eventDataHash,
                    originConfirmed, markFailedCalls,
                    sideVars >>

\* the awaited collaborator calls, in program order
ExternalSteps == {"store", "proof", "coordinator", "receipt", "submit",
                  "withdraw", "bridge"}

NextStepProofAfterCoordinator(pc, chain) ==
    CASE pc = "store" -> "coordinator"
      [] pc = "coordinator" -> "proof"
      [] pc = "proof" -> "receipt"
      [] pc = "receipt" -> "submit"
      [] pc = "submit" -> IF chain # "sui" THEN "withdraw" ELSE "updateConfirmed"
      [] pc = "withdraw" -> "bridge"
      [] pc = "bridge" -> "updateConfirmed"
NextStep(pc, chain) ==
    CASE pc = "store" -> "proof"
      [] pc = "proof" -> "coordinator"
      [] pc = "coordinator" -> "receipt"
      [] pc = "receipt" -> "submit"
      [] pc = "submit" -> IF chain # "sui" THEN "withdraw" ELSE "updateConfirmed"
      [] pc = "withdraw" -> "bridge"
      [] pc = "bridge" -> "updateConfirmed"

\* the bytes of the uploaded ciphertext, and what walrus.readBlob can give
\* back for the blob just written: the same bytes, other bytes, or an error
Ciphertext == "c1"
WalrusReads == {"c1", "c2", "readError"}

\* WalrusSDKClient.computeHash: SHA-256 in hex, one digest per byte string
computeHash(data) == << "sha256", data >>

\* WalrusSDKClient.verifyStorage: retrieve, hash, compare; TRUE when it
\* returns, FALSE when it throws
verifyStorageNoCompare(retrieved, expectedHash) == retrieved # "readError"
verifyStorage(retrieved, expectedHash) ==
    /\ retrieved # "readError"
    /\ computeHash(retrieved) = expectedHash

\* WalrusSDKClient.store: writeFiles, then verifyStorage of the new blob
\* against the hash of the bytes handed in; TRUE when it returns the blobId
store(data, written, retrieved) ==
    written /\ verifyStorage(retrieved, computeHash(data))

\* walrusClient.store, generateStorageProof, suiClient.processStorageRequest,
\* createReceipt, submitReceiptToOrigin, withdrawPayment, bridgeToSui: each
\* resolves or throws into the catch block; walrusClient.store has written
\* the ciphertext to Walrus once its writeFiles resolved, and the origin
\* contract has accepted the receipt once submitReceiptToOrigin resolved
ExternalCall ==
    /\ handler.pc \in ExternalSteps
    /\ \E resolved \in BOOLEAN, retrieved \in WalrusReads :
         LET ok == IF handler.pc = "store"
                   THEN store(Ciphertext, resolved, retrieved)
                   ELSE resolved
         IN  /\ handler' =
                   IF ok
                   THEN [handler EXCEPT !.pc = NextStep(handler.pc, Chain),
                                        !.readBack = IF handler.pc = "store"
                                                     THEN retrieved ELSE @]
                   ELSE [handler EXCEPT !.pc = "catchUpdate",
                                        !.error = handler.pc]
             /\ walrusBlobs' = IF resolved /\ handler.pc = "store"
                               THEN walrusBlobs \cup {Req} ELSE walrusBlobs
             /\ originConfirmed' = IF ok /\ handler.pc = "submit"
                                   THEN originConfirmed \cup {Req}
                                   ELSE originConfirmed
    /\ UNCHANGED << ingestVars, otherVars, storeVars, jobs, admitted,
                    originChain, eventDataHash, markFailedCalls,
                    scenarioVars >>

\* updateStorageRequest(requestId, {status: 'confirmed', walrusBlobId,
\* suiTxHash, ...}); return. The blob id and the coordinator transaction are
\* those of this execution, named here by its job
UpdateConfirmed ==
    /\ handler.pc = "updateConfirmed"
    /\ storageRequests' = [storageRequests EXCEPT ![Req] =
                             updateStorageRequest(@,
                                 [status |-> "confirmed",
                                  walrusBlobId |-> handler.job,
                                  suiTxHash |-> handler.job])]
    /\ handler' = IdleHandler
    /\ jobs' = JobCompleted(handler.job)
    /\ UNCHANGED << ingestVars, otherVars, retrievalRequests, admitted,
                    originChain, eventDataHash,
                    originConfirmed, markFailedCalls,
                    sideVars >>

\* catch: updateStorageRequest(requestId, {status: 'failed', error})
CatchUpdate ==
    /\ handler.pc = "catchUpdate"
    /\ storageRequests' = [storageRequests EXCEPT ![Req] =
                             updateStorageRequest(@, [status |-> "failed"])]
    /\ handler' = [handler EXCEPT !.pc = "catchMark"]
    /\ UNCHANGED << ingestVars, otherVars, retrievalRequests, jobs, admitted,
                    originChain, eventDataHash,
                    originConfirmed, markFailedCalls,
                    sideVars >>

\* catch: markFailedOnOrigin, then throw error; markFailedOnOrigin rethrows
\* its own error, the handler rejects either way
CatchMarkFailed ==
    /\ handler.pc = "catchMark"
    /\ markFailedCalls' = markFailedOnOrigin(markFailedCalls, Chain, Req)
    /\ handler' = IdleHandler
    /\ jobs' = JobFailed(handler.job)
    /\ UNCHANGED << ingestVars, otherVars, storeVars, admitted, originChain,
                    eventDataHash, originConfirmed, sideVars >>

InitWorkflow ==
    /\ jobs = [j \in JobIds |-> NoJob]
    /\ handler = IdleHandler
    /\ admitted = {}
    /\ originChain \in [WorkflowRequests -> OriginChains]
    /\ eventDataHash = [r \in WorkflowRequests |-> << >>]
    /\ originConfirmed = {}
    /\ markFailedCalls = [r \in WorkflowRequests |-> 0]
    /\ walrusBlobs = {}
    /\ executions = [c \in Consumers |-> NoExecution]

NextWorkflow ==
    \/ \E r \in WorkflowRequests : SaveStorageRequest(r)
    \/ \E r \in WorkflowRequests : AdmitStorageRequested(r)
    \/ \E r \in WorkflowRequests : Upload(r)
    \/ \E r \in WorkflowRequests : Retry(r)
    \/ \E j \in JobIds : JobStart(j)
    \/ FraudCheck
    \/ FraudMarkFailed
    \/ GetRequest
    \/ ExternalCall
    \/ UpdateConfirmed
    \/ CatchUpdate
    \/ CatchMarkFailed

(***************************************************************************)
(* The fraud gate (FraudDetector.checkStorageRequest).                     *)
(***************************************************************************)
\* clock ticks in one behaviour, and the length of a tick in ms
MaxTicks == 3
TickMs == 600000

ReplayWindow == 3600000
MaxPayment == 1000000000
RateWindow == 60000
RateLimit == 10
HistoryDays == 30
HourMs == 3600000

FraudRequests == {"q1", "q2", "q3"}
\* job data of three requests of one user; q1 and q2 carry the same dataHash
FraudData ==
    [q1 |-> [requestId |-> "q1", user |-> "u1", dataHash |-> "h1",
             paymentAmount |-> 100],
     q2 |-> [requestId |-> "q2", user |-> "u1", dataHash |-> "h1",
             paymentAmount |-> 100],
     q3 |-> [requestId |-> "q3", user |-> "u1", dataHash |-> "h2",
             paymentAmount |-> 300]]
\* the blacklist collection: nothing in the relayer writes to it
Blacklist == {}

\* new Date(): a BSON date; Date.now(): a BSON number
BsonDate(ms) == [type |-> "date", ms |-> ms]
BsonNumber(ms) == [type |-> "number", ms |-> ms]
\* MongoDB $gte: a field matches a bound of its own BSON type only
BsonGte(field, bound) == field.type = bound.type /\ field.ms >= bound.ms

\* Database.findStorageRequest({user, dataHash, createdAt: {$gte: bound}})
findStorageRequest(docs, user, dataHash, bound) ==
    \E i \in DOMAIN docs :
        /\ docs[i].user = user
        /\ docs[i].dataHash = dataHash
        /\ BsonGte(docs[i].createdAt, bound)

\* Database.countStorageRequests({user, createdAt: {$gte: bound}})
countStorageRequests(docs, user, bound) ==
    Cardinality({i \in DOMAIN docs :
                    docs[i].user = user /\ BsonGte(docs[i].createdAt, bound)})

\* Database.getStorageRequestHistory(user, days): createdAt >= the Date
\* now - days * 24 * 3600000, compared in whole hours to stay in 32 bits
getStorageRequestHistory(docs, user, days, t) ==
    LET recent(d) ==
            LET age == t - d.createdAt.ms
            IN  /\ d.createdAt.type = "date"
                /\ \/ age \div HourMs < days * 24
                   \/ age \div HourMs = days * 24 /\ age % HourMs = 0
    IN  SelectSeq(docs, LAMBDA d : d.user = user /\ recent(d))

\* runRuleBasedChecks: replay, payment amount, rate limit, blacklist (the
\* metadata rule needs data.metadataEncrypted, which no job carries)
runRuleBasedChecks(docs, data, t) ==
    IF findStorageRequest(docs, data.user, data.dataHash,
                          BsonNumber(t - ReplayWindow))
    THEN "replay"
    ELSE IF data.paymentAmount > MaxPayment THEN "payment"
    ELSE IF countStorageRequests(docs, data.user, BsonNumber(t - RateWindow))
               > RateLimit
    THEN "rate"
    ELSE IF data.user \in Blacklist THEN "blacklist"
    ELSE "clean"

RECURSIVE SumSeq(_)
SumSeq(q) == IF q = << >> THEN 0 ELSE Head(q) + SumSeq(Tail(q))

\* analyzeBehavior: z-score of the payment over the user's history, then the
\* interval since the last request against the mean interval.  With n
\* amounts of sum S and sum of squares Q: stdDev > 0 iff n*Q - S*S > 0, and
\* zScore > 3 iff (n*x - S)^2 > 9 * (n*Q - S*S); the intervals sum to the
\* last timestamp minus the first.
analyzeBehavior(docs, data, t) ==
    LET history == getStorageRequestHistory(docs, data.user, HistoryDays, t)
        n == Len(history)
        amounts == [i \in 1 .. n |-> history[i].paymentAmount]
        S == SumSeq(amounts)
        Q == SumSeq([i \in 1 .. n |-> amounts[i] * amounts[i]])
        x == data.paymentAmount
        sumIntervals == history[n].createdAt.ms - history[1].createdAt.ms
        lastInterval == t - history[n].createdAt.ms
    IN  IF n = 0 THEN "clean"
        ELSE IF n * Q - S * S > 0
                /\ (n * x - S) * (n * x - S) > 9 * (n * Q - S * S)
        THEN "outlier"
        ELSE IF n - 1 > 0 /\ 10 * (n - 1) * lastInterval < sumIntervals
                /\ sumIntervals > 0
        THEN "rapid"
        ELSE "clean"

\* checkStorageRequest: the reason of the first rule that fires, or clean
checkStorageRequest(docs, data, t) ==
    IF runRuleBasedChecks(docs, data, t) # "clean"
    THEN runRuleBasedChecks(docs, data, t)
    ELSE analyzeBehavior(docs, data, t)

Saved(q) == \E i \in DOMAIN userRequests : userRequests[i].requestId = q

\* Date.now() advances
Tick ==
    /\ clock < MaxTicks * TickMs
    /\ clock' = clock + TickMs
    /\ UNCHANGED << ingestVars, otherVars, storeVars, jobs, handler, admitted,
                    originChain, eventDataHash, originConfirmed,
                    markFailedCalls, walrusBlobs, executions, userRequests,
                    verdict >>

\* Database.saveStorageRequest: insertOne({...data, createdAt: new Date()})
SaveUserRequest(q) ==
    /\ ~Saved(q)
    /\ userRequests' = Append(userRequests,
                              [requestId |-> q,
                               user |-> FraudData[q].user,
                               dataHash |-> FraudData[q].dataHash,
                               paymentAmount |-> FraudData[q].paymentAmount,
                               createdAt |-> BsonDate(clock)])
    /\ UNCHANGED << ingestVars, otherVars, storeVars, jobs, handler, admitted,
                    originChain, eventDataHash, originConfirmed,
                    markFailedCalls, walrusBlobs, executions, clock, verdict >>

\* the storage-request job of q reaches the fraud gate
FraudGate(q) ==
    /\ verdict[q] = "unchecked"
    /\ verdict' = [verdict EXCEPT ![q] =
                     checkStorageRequest(userRequests, FraudData[q], clock)]
    /\ UNCHANGED << ingestVars, otherVars, storeVars, jobs, handler, admitted,
                    originChain, eventDataHash, originConfirmed,
                    markFailedCalls, walrusBlobs, executions, userRequests,
                    clock >>

InitFraud ==
    /\ userRequests = << >>
    /\ clock = 0
    /\ verdict = [q \in FraudRequests |-> "unchecked"]

NextFraud ==
    \/ Tick
    \/ \E q \in FraudRequests : SaveUserRequest(q)
    \/ \E q \in FraudRequests : FraudGate(q)

(***************************************************************************)
(* Two relayer processes on the same Redis and MongoDB: each registers     *)
(* processStorageRequest with queue.process, and Bull hands the jobs of    *)
(* one request (its event job, a POST /retry job) to both.                 *)
(***************************************************************************)
\* jobs of the request each consumer runs in one behaviour
MaxRuns == 1

OverlapRequest == CHOOSE r \in WorkflowRequests : TRUE
overlapRest == << ingestVars, otherVars, retrievalRequests, jobs, handler, admitted,
                 originChain, eventDataHash,
                 originConfirmed, fraudVars >>

\* queue.process: the consumer takes a job of the request
OvStart(c) ==
    /\ executions[c].pc = "idle"
    /\ executions[c].runs < MaxRuns
    /\ storageRequests[OverlapRequest] # NoDoc
    /\ executions' = [executions EXCEPT ![c] =
                        [pc |-> "fraud", read |-> None, runs |-> @.runs + 1]]
    /\ UNCHANGED << overlapRest, storageRequests, markFailedCalls,
                    walrusBlobs >>

\* fraudDetector.checkStorageRequest
OvFraudCheck(c) ==
    /\ executions[c].pc = "fraud"
    /\ \E isFraudulent \in BOOLEAN :
         executions' = [executions EXCEPT ![c].pc =
                           IF isFraudulent THEN "fraudMark" ELSE "getRequest"]
    /\ UNCHANGED << overlapRest, storageRequests, markFailedCalls,
                    walrusBlobs >>

\* fraud path: markFailedOnOrigin, return; its throw lands in the catch block
OvFraudMarkFailed(c) ==
    /\ executions[c].pc = "fraudMark"
    /\ markFailedCalls' = markFailedOnOrigin(markFailedCalls,
                               originChain[OverlapRequest], OverlapRequest)
    /\ \E ok \in BOOLEAN :
         executions' = [executions EXCEPT ![c].pc =
                           IF ok THEN "idle" ELSE "catchUpdate"]
    /\ UNCHANGED << overlapRest, storageRequests, walrusBlobs >>

\* getStorageRequest: the document, with its status, as this execution saw it
OvGetRequest(c) ==
    /\ executions[c].pc = "getRequest"
    /\ executions' = [executions EXCEPT
           ![c].read = storageRequests[OverlapRequest].status,
           ![c].pc = IF storageRequests[OverlapRequest].encryptedDataBase64
                     THEN "store" ELSE "catchUpdate"]
    /\ UNCHANGED << overlapRest, storageRequests, markFailedCalls,
                    walrusBlobs >>

\* the awaited collaborator calls
OvExternalCall(c) ==
    /\ executions[c].pc \in ExternalSteps
    /\ \E ok \in BOOLEAN :
         /\ executions' = [executions EXCEPT ![c].pc =
                IF ok THEN NextStep(executions[c].pc, originChain[OverlapRequest])
                ELSE "catchUpdate"]
         /\ walrusBlobs' = IF ok /\ executions[c].pc = "store"
                           THEN walrusBlobs \cup {OverlapRequest}
                           ELSE walrusBlobs
    /\ UNCHANGED << overlapRest, storageRequests, markFailedCalls >>

\* updateStorageRequest(requestId, {status: 'confirmed', ...}); return
OvUpdateConfirmed(c) ==
    /\ executions[c].pc = "updateConfirmed"
    /\ storageRequests' = [storageRequests EXCEPT ![OverlapRequest] =
                             updateStorageRequest(@, [status |-> "confirmed",
                                 walrusBlobId |-> c, suiTxHash |-> c])]
    /\ executions' = [executions EXCEPT ![c].pc = "idle"]
    /\ UNCHANGED << overlapRest, markFailedCalls, walrusBlobs >>

\* catch: updateStorageRequest(requestId, {status: 'failed', error})
OvCatchUpdate(c) ==
    /\ executions[c].pc = "catchUpdate"
    /\ storageRequests' = [storageRequests EXCEPT ![OverlapRequest] =
                             updateStorageRequest(@, [status |-> "failed"])]
    /\ executions' = [executions EXCEPT ![c].pc = "catchMark"]
    /\ UNCHANGED << overlapRest, markFailedCalls, walrusBlobs >>

\* catch: markFailedOnOrigin, then throw
OvCatchMarkFailed(c) ==
    /\ executions[c].pc = "catchMark"
    /\ markFailedCalls' = markFailedOnOrigin(markFailedCalls,
                               originChain[OverlapRequest], OverlapRequest)
    /\ executions' = [executions EXCEPT ![c].pc = "idle"]
    /\ UNCHANGED << overlapRest, storageRequests, walrusBlobs >>

NextOverlap ==
    \/ \E r \in WorkflowRequests : SaveStorageRequest(r)
    \/ \E r \in WorkflowRequests : Upload(r)
    \/ \E c \in Consumers : OvStart(c)
    \/ \E c \in Consumers : OvFraudCheck(c)
    \/ \E c \in Consumers : OvFraudMarkFailed(c)
    \/ \E c \in Consumers : OvGetRequest(c)
    \/ \E c \in Consumers : OvExternalCall(c)
    \/ \E c \in Consumers : OvUpdateConfirmed(c)
    \/ \E c \in Consumers : OvCatchUpdate(c)
    \/ \E c \in Consumers : OvCatchMarkFailed(c)

(***************************************************************************)
(* ReceiptGenerator, submitReceiptToOrigin (EVM branch) and                *)
(* DataHaven.verifyReceipt.                                                *)
(***************************************************************************)
\* inputs of createReceipt: the same request stored under one of two blob ids
ReceiptParams ==
    {[requestId |-> "r1", walrusBlobId |-> b, suiTxHash |-> "t1",
      dataHash |-> "h1", zkProof |-> "p1"] : b \in {"b1", "b2"}}

\* the address of RELAYER_ETHEREUM_PRIVATE_KEY, which the contract holds as
\* relayer
RelayerAddress == "relayer"

\* byte strings are sequences of symbols and packing is concatenation;
\* digests and encodings give one value per input, and different functions
\* never agree
hashData(data) == << "sha256" >> \o data
keccak256(data) == << "keccak256" >> \o data
toUtf8Bytes(str) == << "utf8", str >>

\* wallet.signMessage and ECDSA.recover over the prefixed digest: the
\* signer's address comes back only for the digest that was signed
signMessage(address, digest) == [signer |-> address, digest |-> digest]
recover(digest, signature) ==
    IF signature.digest = digest THEN signature.signer ELSE "other"

\* ReceiptGenerator.signForEVM: solidityPackedKeccak256 of five fields
signForEVM(receipt) ==
    signMessage(RelayerAddress,
                keccak256(<< receipt.requestId, receipt.walrusBlobId,
                             receipt.suiTxHash, receipt.dataHash,
                             ToString(receipt.timestamp) >>))

\* ReceiptGenerator.signForSolana: ed25519 over the concatenated fields
signForSolana(receipt) ==
    [signer |-> "relayerSolana",
     message |-> << receipt.requestId, receipt.walrusBlobId,
                    receipt.suiTxHash, receipt.dataHash,
                    ToString(receipt.timestamp) >>]

\* ReceiptGenerator.createReceipt at Date.now() = now
createReceipt(params, now) ==
    LET receipt == [requestId |-> params.requestId,
                    walrusBlobId |-> params.walrusBlobId,
                    suiTxHash |-> params.suiTxHash,
                    dataHash |-> params.dataHash,
                    zkProofHash |-> hashData(<< params.zkProof >>),
                    timestamp |-> now,
                    version |-> "1.0"]
    IN  [requestId |-> receipt.requestId,
         walrusBlobId |-> receipt.walrusBlobId,
         suiTxHash |-> receipt.suiTxHash,
         dataHash |-> receipt.dataHash,
         zkProofHash |-> receipt.zkProofHash,
         timestamp |-> receipt.timestamp,
         version |-> receipt.version,
         zkProof |-> params.zkProof,
         signatures |-> [evm |-> signForEVM(receipt),
                         solana |-> signForSolana(receipt)]]

\* every receipt createReceipt can return within the clock's range
Receipts ==
    {createReceipt(p, k * TickMs) : p \in ReceiptParams, k \in 0 .. MaxTicks}

\* a call of createReceipt: signMessage or ed25519.Sign may throw, and then
\* the call rejects without a receipt
CreateReceipt(p) ==
    /\ \E evmSigned, solanaSigned \in BOOLEAN :
         receipts' = IF evmSigned /\ solanaSigned
                     THEN receipts \cup {createReceipt(p, clock)}
                     ELSE receipts
    /\ UNCHANGED << ingestVars, storeVars, workflowVars, chainVars,
                    retrievalVars, shutdown, onchainStatus, reverted >>

\* DataHaven.verifyReceipt: TRUE when neither require reverts
verifyReceipt(status, relayer, requestId, blobId, suiTxHash, proofHash, signature) ==
    /\ status[requestId] = "Pending"
    /\ recover(keccak256(requestId \o blobId \o suiTxHash \o proofHash),
               signature) = relayer

\* submitReceiptToOrigin, chain ethereum or polygon: contract.verifyReceipt
\* and tx.wait(); a revert makes it throw
SubmitReceipt(rc) ==
    /\ rc \in receipts \ reverted
    /\ LET proofHash == keccak256(<< rc.zkProof >>)
           blobIdHash == keccak256(toUtf8Bytes(rc.walrusBlobId))
           suiTxHashHash == keccak256(toUtf8Bytes(rc.suiTxHash))
           requestId == toUtf8Bytes(rc.requestId)
       IN  IF verifyReceipt(onchainStatus, RelayerAddress, requestId,
                            blobIdHash, suiTxHashHash, proofHash,
                            rc.signatures.evm)
           THEN /\ onchainStatus' = [onchainStatus EXCEPT
                                        ![requestId] = "Confirmed"]
                /\ UNCHANGED reverted
           ELSE /\ reverted' = reverted \cup {rc}
                /\ UNCHANGED onchainStatus
    /\ UNCHANGED << ingestVars, storeVars, workflowVars, chainVars,
                    retrievalVars, shutdown, receipts >>

InitReceipt ==
    /\ receipts = {}
    \* the requests mapping under the keys the relayer can name: the request
    \* initiateStorage created and the default entry of an unused key
    /\ onchainStatus = [k \in {<< "r1" >>, toUtf8Bytes("r1")} |-> "Pending"]
    /\ reverted = {}

NextReceipt ==
    \/ Tick
    \/ \E p \in ReceiptParams : CreateReceipt(p)
    \/ \E rc \in Receipts : SubmitReceipt(rc)

(***************************************************************************)
(* The retrieval-request workflow (processRetrievalRequest).               *)
(***************************************************************************)
NoRetrieval == [status |-> "absent", integrityProof |-> << >>, error |-> None]
\* accessAllowed: whether the coordinator's access policy admits the
\* accessor of the retrieval; originalHash, retrieved: locals of the handler
IdleRetrieval == [pc |-> "idle", attemptsMade |-> 0, accessAllowed |-> None,
                  originalHash |-> << >>, retrieved |-> None, error |-> None]

\* the dataHash string the storage request can carry: the hex digest of the
\* stored ciphertext or of other bytes, with or without a 0x prefix
RecordedHashes ==
    {[prefixed |-> p, digest |-> computeHash(d)] :
        p \in BOOLEAN, d \in WalrusReads \ {"readError"}}

\* Buffer.from(dataHash, 'hex'): decoding stops at the first pair that is
\* not hex, so a 0x-prefixed string gives the empty buffer
fromHex(h) == IF h.prefixed THEN << >> ELSE h.digest

\* SealZKHandler.generateIntegrityProof: TRUE when it returns, FALSE when it
\* throws 'Integrity check failed: hash mismatch'
generateIntegrityProofNoCompare(originalHash, retrievedData) == TRUE
generateIntegrityProof(originalHash, retrievedData) ==
    computeHash(retrievedData) = originalHash

\* Database.saveRetrievalRequest
SaveRetrievalRequest ==
    /\ retrieval = NoRetrieval
    /\ retrieval' = [NoRetrieval EXCEPT !.status = "pending"]
    /\ UNCHANGED << ingestVars, storeVars, workflowVars, chainVars, receiptVars,
                    shutdown, rhandler >>

\* Database.updateRetrievalRequest: updateOne({retrievalId}, {$set: updates})
updateRetrievalRequest(doc, updates) ==
    IF doc = NoRetrieval THEN doc
    ELSE [f \in DOMAIN doc |-> IF f \in DOMAIN updates THEN updates[f]
                                                        ELSE doc[f]]

\* Bull starts the retrieval job, at most attempts times
RetrievalStart ==
    /\ rhandler.pc = "idle"
    /\ rhandler.attemptsMade < attempts
    /\ \E allowed \in {"allowed", "denied"} :
         rhandler' = [rhandler EXCEPT
                         !.pc = "fraud",
                         !.accessAllowed = IF @ = None THEN allowed ELSE @]
    /\ UNCHANGED << ingestVars, storeVars, workflowVars, chainVars, receiptVars,
                    shutdown, retrieval >>

\* the awaited calls of the try block, in program order
RetrievalNext(pc) ==
    CASE pc = "fraud" -> "getStorageRequest"
      [] pc = "getStorageRequest" -> "accessProof"
      [] pc = "accessProof" -> "retrieve"
      [] pc = "retrieve" -> "integrity"
      [] pc = "integrity" -> "updateCompleted"
      [] pc = "confirmation" -> "done"

\* fraudDetector.analyze, getStorageRequest, generateAccessProof,
\* walrusClient.retrieve, generateIntegrityProof,
\* submitRetrievalConfirmation: each returns or throws into the catch block
RetrievalCall ==
    /\ rhandler.pc \in {"fraud", "getStorageRequest", "accessProof",
                        "retrieve", "integrity", "confirmation"}
    /\ \E resolved \in BOOLEAN, h \in RecordedHashes, bytes \in WalrusReads :
         LET pc == rhandler.pc
             ok == CASE pc = "retrieve" -> bytes # "readError"
                     [] pc = "integrity" ->
                          generateIntegrityProof(rhandler.originalHash,
                                                 rhandler.retrieved)
                     [] OTHER -> resolved
         IN  rhandler' =
               IF ok
               THEN [rhandler EXCEPT
                       !.pc = RetrievalNext(pc),
                       !.originalHash = IF pc = "getStorageRequest"
                                        THEN fromHex(h) ELSE @,
                       !.retrieved = IF pc = "retrieve" THEN bytes ELSE @]
               ELSE [rhandler EXCEPT !.pc = "catch", !.error = pc]
    /\ UNCHANGED << ingestVars, storeVars, workflowVars, chainVars, receiptVars,
                    shutdown, retrieval >>

\* updateRetrievalRequest(retrievalId, {status: 'completed',
\* integrityProof, ...})
RetrievalUpdateCompleted ==
    /\ rhandler.pc = "updateCompleted"
    /\ retrieval' = updateRetrievalRequest(retrieval,
                        [status |-> "completed",
                         integrityProof |->
                             rhandler.originalHash
                                 \o computeHash(rhandler.retrieved)])
    /\ rhandler' = [rhandler EXCEPT !.pc = "confirmation"]
    /\ UNCHANGED << ingestVars, storeVars, workflowVars, chainVars, receiptVars,
                    shutdown >>

\* catch: updateRetrievalRequest(retrievalId, {status: 'failed', error});
\* throw error: the attempt has failed
RetrievalCatch ==
    /\ rhandler.pc = "catch"
    /\ retrieval' = updateRetrievalRequest(retrieval,
                        [status |-> "failed", error |-> rhandler.error])
    /\ rhandler' = [IdleRetrieval EXCEPT
                       !.attemptsMade = rhandler.attemptsMade + 1,
                       !.accessAllowed = rhandler.accessAllowed]
    /\ UNCHANGED << ingestVars, storeVars, workflowVars, chainVars, receiptVars,
                    shutdown >>

InitRetrieval ==
    /\ retrieval = NoRetrieval
    /\ rhandler = IdleRetrieval

NextRetrieval ==
    \/ SaveRetrievalRequest
    \/ RetrievalStart
    \/ RetrievalCall
    \/ RetrievalUpdateCompleted
    \/ RetrievalCatch

(***************************************************************************)
(* Graceful shutdown (setupGracefulShutdown).                              *)
(***************************************************************************)
\* process.on('SIGTERM' | 'SIGINT'): the shutdown function starts
ShutdownSignal ==
    /\ shutdown = "running"
    /\ shutdown' = "stop"
    /\ UNCHANGED << ingestVars, storeVars, workflowVars, chainVars, receiptVars,
                    retrievalVars >>

\* await eventListener.stop(): logs 'Stopping event listeners' and returns;
\* the contract.on and onLogs subscriptions stay registered
ListenerStop ==
    /\ shutdown = "stop"
    /\ shutdown' = "closeQueue"
    /\ UNCHANGED << ingestVars, storeVars, workflowVars, chainVars, receiptVars,
                    retrievalVars >>

\* await queue.close(): every Bull queue is closed in turn
QueueClose ==
    /\ shutdown = "closeQueue"
    /\ shutdown' = "disconnect"
    /\ UNCHANGED << ingestVars, storeVars, workflowVars, chainVars, receiptVars,
                    retrievalVars >>

\* await database.disconnect(); process.exit(0)
DatabaseDisconnect ==
    /\ shutdown = "disconnect"
    /\ shutdown' = "exited"
    /\ UNCHANGED << ingestVars, storeVars, workflowVars, chainVars, receiptVars,
                    retrievalVars >>

InitShutdown == shutdown = "running"

\* the listener callbacks run on the same event loop until the queue
\* connection is closed; what they do after that is not followed
NextShutdown ==
    \/ shutdown \in {"running", "stop", "closeQueue"} /\ NextIngest
    \/ ShutdownSignal
    \/ ListenerStop
    \/ QueueClose
    \/ DatabaseDisconnect

MaxRequests == 2
MaxValue == 2
MaxRetrievals == 2
\* MIN_PAYMENT, 0.001 ether and 1_000_000 MIST, as one unit of payment
MIN_PAYMENT == 1

(***************************************************************************)
(* The origin contracts: DataHaven.sol with confirmStorage, DataHaven.sol  *)
(* with verifyReceipt, origin.move with a balance, and origin.move that    *)
(* forwards the payment to the admin.  A transaction that reverts or       *)
(* aborts changes nothing, so each action is a transaction that succeeds.  *)
(***************************************************************************)
Accounts == {"user", RelayerAddress, "admin", "mallory"}
Admin == "admin"
ZeroAddress == "0x0"
Variants == {"evmConfirm", "evmReceipt", "suiVault", "suiForward"}
EvmVariants == {"evmConfirm", "evmReceipt"}
VaultVariants == {"evmConfirm", "evmReceipt", "suiVault"}

\* keccak256(abi.encodePacked(msg.sender, _dataHash, requestCount++,
\* block.timestamp)) and object::new(ctx): one fresh id per request
requestIdOf(n) == keccak256(<< "request", ToString(n) >>)
\* the ids the contract can be called with: those it issues, and the bytes
\* the relayer passes, which it never issues
RequestIds == {requestIdOf(n) : n \in 1 .. MaxRequests} \cup {toUtf8Bytes("r1")}

\* what requests[id] reads before any write: the zero value of Request in
\* Solidity, and no object at all on Sui
DefaultRequest(variant) ==
    [user |-> ZeroAddress,
     status |-> IF variant \in EvmVariants THEN "Pending" ELSE "absent",
     payment |-> 0]

Undeployed == [variant |-> None, relayer |-> None, paused |-> FALSE,
               count |-> 0, balance |-> 0]

\* constructor(address _relayer) and init(ctx): the Sui modules make the
\* publisher both admin and relayer
Deploy(variant) ==
    /\ contract = Undeployed
    /\ contract' = [variant |-> variant,
                    relayer |-> IF variant \in EvmVariants
                                THEN RelayerAddress ELSE Admin,
                    paused |-> FALSE, count |-> 0, balance |-> 0]
    /\ requests' = [id \in RequestIds |-> DefaultRequest(variant)]
    /\ UNCHANGED << refunds, authorisedBy >>
    /\ UNCHANGED << ingestVars, storeVars, workflowVars, receiptVars,
                    retrievalVars, shutdown, coordVars >>

\* initiateStorage / initiate_storage
initiateStorage(caller, value) ==
    /\ contract.variant # None
    /\ ~contract.paused
    /\ value >= MIN_PAYMENT
    /\ contract.count < MaxRequests
    /\ requests' = [requests EXCEPT ![requestIdOf(contract.count + 1)] =
                        [user |-> caller, status |-> "Pending",
                         payment |-> value]]
    /\ contract' = [contract EXCEPT
                        !.count = @ + 1,
                        !.balance = IF contract.variant = "suiForward"
                                    THEN @ ELSE @ + value]
    /\ UNCHANGED << refunds, authorisedBy >>
    /\ UNCHANGED << ingestVars, storeVars, workflowVars, receiptVars,
                    retrievalVars, shutdown, coordVars >>

\* the ids a caller can name: an id issued later is the hash of that
\* request's sender, data hash, count and block timestamp, which no caller
\* holds before the request exists
NameableIds ==
    {requestIdOf(n) : n \in 1 .. contract.count} \cup {toUtf8Bytes("r1")}

\* the status write of a call, and the account that authorised it
SetStatus(id, status, account) ==
    /\ requests' = [requests EXCEPT ![id].status = status]
    /\ authorisedBy' = [authorisedBy EXCEPT ![id] = account]

confirmStorageAnyCaller(caller, id) ==
    /\ contract.variant \in {"evmConfirm", "suiForward"}
    /\ id \in NameableIds
    /\ requests[id].status = "Pending"
    /\ SetStatus(id, "Confirmed", caller)
    /\ UNCHANGED << contract, refunds >>
    /\ UNCHANGED << ingestVars, storeVars, workflowVars, receiptVars,
                    retrievalVars, shutdown, coordVars >>

\* confirmStorage (onlyRelayer) / confirm_storage
confirmStorage(caller, id) ==
    /\ contract.variant \in {"evmConfirm", "suiForward"}
    /\ id \in NameableIds
    /\ caller = contract.relayer
    /\ requests[id].status = "Pending"
    /\ SetStatus(id, "Confirmed", caller)
    /\ UNCHANGED << contract, refunds >>
    /\ UNCHANGED << ingestVars, storeVars, workflowVars, receiptVars,
                    retrievalVars, shutdown, coordVars >>

\* verifyReceipt of DataHaven.sol, callable by anyone, and verify_receipt of
\* origin.move, which also asserts that the sender is the relayer; the
\* signature submitted is signer's over the fields of the request signedFor
VerifyReceipt(caller, id, signer, signedFor) ==
    LET blobId == << "blob" >>
        suiTxHash == << "suiTx" >>
        proofHash == << "proof" >>
        signature == signMessage(signer,
                         keccak256(signedFor \o blobId \o suiTxHash \o
                                   proofHash))
    IN  /\ contract.variant \in {"evmReceipt", "suiVault"}
        /\ id \in NameableIds
        /\ contract.variant = "suiVault" => caller = contract.relayer
        /\ verifyReceipt([k \in RequestIds |-> requests[k].status],
                         contract.relayer, id, blobId, suiTxHash, proofHash,
                         signature)
        /\ SetStatus(id, "Confirmed", signer)
        /\ UNCHANGED << contract, refunds >>
        /\ UNCHANGED << ingestVars, storeVars, workflowVars, receiptVars,
                        retrievalVars, shutdown, coordVars >>

markFailedAnyStatus(caller, id) ==
    /\ contract.variant # None
    /\ id \in NameableIds
    /\ caller = contract.relayer
    /\ requests[id].status # "absent"
    /\ contract.variant \in VaultVariants =>
           contract.balance >= requests[id].payment
    /\ SetStatus(id, "Failed", caller)
    /\ IF contract.variant \in VaultVariants
       THEN /\ contract' = [contract EXCEPT
                               !.balance = @ - requests[id].payment]
            /\ refunds' = [refunds EXCEPT ![id] =
                              Append(@, [to |-> requests[id].user,
                                         amount |-> requests[id].payment])]
       ELSE UNCHANGED << contract, refunds >>
    /\ UNCHANGED << ingestVars, storeVars, workflowVars, receiptVars,
                    retrievalVars, shutdown, coordVars >>

\* markFailed / mark_failed: the transfer of req.payment reverts, and
\* balance::split aborts, when the contract holds less; the forwarding
\* module transfers nothing
markFailed(caller, id) ==
    /\ contract.variant # None
    /\ id \in NameableIds
    /\ caller = contract.relayer
    /\ requests[id].status = "Pending"
    /\ contract.variant \in VaultVariants =>
           contract.balance >= requests[id].payment
    /\ SetStatus(id, "Failed", caller)
    /\ IF contract.variant \in VaultVariants
       THEN /\ contract' = [contract EXCEPT
                               !.balance = @ - requests[id].payment]
            /\ refunds' = [refunds EXCEPT ![id] =
                              Append(@, [to |-> requests[id].user,
                                         amount |-> requests[id].payment])]
       ELSE UNCHANGED << contract, refunds >>
    /\ UNCHANGED << ingestVars, storeVars, workflowVars, receiptVars,
                    retrievalVars, shutdown, coordVars >>

\* revokeAccess / revoke_access
revokeAccess(caller, id) ==
    /\ contract.variant # None
    /\ id \in NameableIds
    /\ caller = requests[id].user
    /\ requests[id].status = "Confirmed"
    /\ SetStatus(id, "Revoked", caller)
    /\ UNCHANGED << contract, refunds >>
    /\ UNCHANGED << ingestVars, storeVars, workflowVars, receiptVars,
                    retrievalVars, shutdown, coordVars >>

\* withdraw(_amount) onlyAdmin: any amount the contract holds
withdraw(caller, amount) ==
    /\ contract.variant \in VaultVariants
    /\ caller = Admin
    /\ amount <= contract.balance
    /\ contract' = [contract EXCEPT !.balance = @ - amount]
    /\ UNCHANGED << requests, refunds, authorisedBy >>
    /\ UNCHANGED << ingestVars, storeVars, workflowVars, receiptVars,
                    retrievalVars, shutdown, coordVars >>

\* receive() external payable {}: ether sent to DataHaven.sol
receive(value) ==
    /\ contract.variant \in EvmVariants
    /\ contract.balance + value <= MaxRequests * MaxValue
    /\ contract' = [contract EXCEPT !.balance = @ + value]
    /\ UNCHANGED << requests, refunds, authorisedBy >>
    /\ UNCHANGED << ingestVars, storeVars, workflowVars, receiptVars,
                    retrievalVars, shutdown, coordVars >>

\* updateRelayer / update_relayer
updateRelayer(caller, newRelayer) ==
    /\ contract.variant # None
    /\ caller = Admin
    /\ newRelayer # contract.relayer
    /\ contract' = [contract EXCEPT !.relayer = newRelayer]
    /\ UNCHANGED << requests, refunds, authorisedBy >>
    /\ UNCHANGED << ingestVars, storeVars, workflowVars, receiptVars,
                    retrievalVars, shutdown, coordVars >>

\* pause and unpause
SetPaused(caller, paused) ==
    /\ contract.variant # None
    /\ caller = Admin
    /\ paused # contract.paused
    /\ contract' = [contract EXCEPT !.paused = paused]
    /\ UNCHANGED << requests, refunds, authorisedBy >>
    /\ UNCHANGED << ingestVars, storeVars, workflowVars, receiptVars,
                    retrievalVars, shutdown, coordVars >>

InitOrigin ==
    /\ contract = Undeployed
    /\ requests = [id \in RequestIds |-> DefaultRequest("suiVault")]
    /\ refunds = [id \in RequestIds |-> << >>]
    /\ authorisedBy = [id \in RequestIds |-> None]

NextOrigin ==
    \/ \E variant \in Variants : Deploy(variant)
    \/ \E value \in 0 .. MaxValue : initiateStorage("user", value)
    \/ \E caller \in Accounts, id \in RequestIds : confirmStorage(caller, id)
    \/ \E caller, signer \in Accounts, id, signedFor \in RequestIds :
           VerifyReceipt(caller, id, signer, signedFor)
    \/ \E caller \in Accounts, id \in RequestIds : markFailed(caller, id)
    \/ \E caller \in Accounts, id \in RequestIds : revokeAccess(caller, id)
    \/ \E caller \in Accounts, amount \in 1 .. MaxRequests * MaxValue :
           withdraw(caller, amount)
    \/ \E caller \in Accounts : updateRelayer(caller, "mallory")
    \/ \E caller \in Accounts, paused \in BOOLEAN : SetPaused(caller, paused)
    \/ \E value \in 1 .. MaxValue : receive(value)

(***************************************************************************)
(* The Sui coordinator (datahaven::coordinator) and the relayer's call of  *)
(* process_storage_request; one origin request id, so one StorageRequest.  *)
(***************************************************************************)
CHAIN_ETHEREUM == 1
CHAIN_SOLANA == 2
CHAIN_SUI == 3
ACCESS_POLICY_PUBLIC == 0
ACCESS_POLICY_PRIVATE == 1
ACCESS_POLICY_WHITELIST == 2
ACCESS_POLICY_TOKEN_GATED == 3

\* the origin chains of the jobs processStorageRequest handles
ProcessedChains == {"ethereum", "solana", "polygon", "sui"}

\* SealZKHandler.chainNameToId: mapping[chain] || 0
chainNameToId(chain) ==
    CASE chain = "ethereum" -> 1
      [] chain = "solana" -> 2
      [] chain = "polygon" -> 3
      [] OTHER -> 0

is_supported_chain(state, chain_id) == chain_id \in state.supported_chains

NoStorageRequest ==
    [status |-> "absent", origin_chain |-> 0, user |-> ZeroAddress,
     access_policy |-> [policy_type |-> 0, owner |-> ZeroAddress,
                        allowed_addresses |-> {}, expiry_timestamp |-> 0]]

\* check_access_policy at clock::timestamp_ms = now
check_access_policy(policy, accessor, now) ==
    IF policy.expiry_timestamp > 0 /\ now > policy.expiry_timestamp
    THEN FALSE
    ELSE IF policy.policy_type = ACCESS_POLICY_PUBLIC
    THEN TRUE
    ELSE IF policy.policy_type = ACCESS_POLICY_PRIVATE
    THEN accessor = policy.owner
    ELSE IF policy.policy_type = ACCESS_POLICY_WHITELIST
    THEN accessor \in policy.allowed_addresses \/ accessor = policy.owner
    ELSE FALSE

has_accessAnyStatus(request, accessor, now) ==
    check_access_policy(request.access_policy, accessor, now)

has_access(request, accessor, now) ==
    IF request.status # "Confirmed"
    THEN FALSE
    ELSE check_access_policy(request.access_policy, accessor, now)

is_valid_policy_type(policy_type) ==
    policy_type \in {ACCESS_POLICY_PUBLIC, ACCESS_POLICY_PRIVATE,
                     ACCESS_POLICY_WHITELIST, ACCESS_POLICY_TOKEN_GATED}

\* SealZKHandler.processStorageRequest for a job of originChain, calling
\* process_storage_request as the relayer; submission keeps what the call
\* was made for and the abort it ended in.  The sender is the relayer and
\* the payment is taken as sufficient; the registry holds the one origin
\* request id once the StorageRequest exists
ProcessStorageRequest(chain, access_policy_type) ==
    LET origin_chain == chainNameToId(chain)
    IN  /\ ~coordinator.paused
        /\ coordRequest.status = "absent"
        /\ IF is_supported_chain(coordinator, origin_chain)
           THEN /\ coordRequest' =
                       [status |-> "Confirmed",
                        origin_chain |-> origin_chain,
                        user |-> "user",
                        access_policy |->
                            [policy_type |-> access_policy_type,
                             owner |-> "user",
                             allowed_addresses |-> {},
                             expiry_timestamp |-> 0]]
                /\ submission' = [originChain |-> chain, error |-> None]
           ELSE /\ submission' = [originChain |-> chain,
                                  error |-> "EInvalidChain"]
                /\ UNCHANGED coordRequest
        /\ UNCHANGED << coordinator, retrievalRecords >>
        /\ UNCHANGED << ingestVars, storeVars, workflowVars, receiptVars,
                        retrievalVars, shutdown, contractVars >>

\* validate_access: a RetrievalRequest object is shared when the policy
\* admits the accessor; the call returns false and writes nothing otherwise
validate_access(accessor) ==
    /\ ~coordinator.paused
    /\ coordRequest.status = "Confirmed"
    /\ check_access_policy(coordRequest.access_policy, accessor, clock)
    /\ Cardinality(retrievalRecords) < MaxRetrievals
    /\ retrievalRecords' = retrievalRecords \cup
                               {[accessor |-> accessor, retrieved_at |-> clock]}
    /\ UNCHANGED << coordinator, coordRequest, submission >>
    /\ UNCHANGED << ingestVars, storeVars, workflowVars, receiptVars,
                    retrievalVars, shutdown, contractVars >>

\* coordinator::revoke_access
revoke_access(sender) ==
    /\ sender = coordRequest.user
    /\ coordRequest.status = "Confirmed"
    /\ coordRequest' = [coordRequest EXCEPT !.status = "Revoked"]
    /\ UNCHANGED << coordinator, retrievalRecords, submission >>
    /\ UNCHANGED << ingestVars, storeVars, workflowVars, receiptVars,
                    retrievalVars, shutdown, contractVars >>

update_access_policy(sender, new_policy_type, allowed_addresses, expiry_timestamp) ==
    /\ sender = coordRequest.user
    /\ coordRequest.status = "Confirmed"
    /\ is_valid_policy_type(new_policy_type)
    /\ coordRequest' = [coordRequest EXCEPT !.access_policy =
                           [policy_type |-> new_policy_type,
                            owner |-> coordRequest.user,
                            allowed_addresses |-> allowed_addresses,
                            expiry_timestamp |-> expiry_timestamp]]
    /\ coordRequest' # coordRequest
    /\ UNCHANGED << coordinator, retrievalRecords, submission >>
    /\ UNCHANGED << ingestVars, storeVars, workflowVars, receiptVars,
                    retrievalVars, shutdown, contractVars >>

\* coordinator::pause and unpause
CoordinatorSetPaused(sender, paused) ==
    /\ sender = Admin
    /\ paused # coordinator.paused
    /\ coordinator' = [coordinator EXCEPT !.paused = paused]
    /\ UNCHANGED << coordRequest, retrievalRecords, submission >>
    /\ UNCHANGED << ingestVars, storeVars, workflowVars, receiptVars,
                    retrievalVars, shutdown, contractVars >>

add_supported_chain(sender, chain_id) ==
    /\ sender = Admin
    /\ chain_id \notin coordinator.supported_chains
    /\ coordinator' = [coordinator EXCEPT
                          !.supported_chains = @ \cup {chain_id}]
    /\ UNCHANGED << coordRequest, retrievalRecords, submission >>
    /\ UNCHANGED << ingestVars, storeVars, workflowVars, receiptVars,
                    retrievalVars, shutdown, contractVars >>

InitCoordinator ==
    /\ coordinator = [paused |-> FALSE,
                      supported_chains |->
                          {CHAIN_ETHEREUM, CHAIN_SOLANA, CHAIN_SUI}]
    /\ coordRequest = NoStorageRequest
    /\ retrievalRecords = {}
    /\ submission = [originChain |-> None, error |-> None]

NextCoordinator ==
    \/ Tick
    \/ \E chain \in ProcessedChains, access_policy_type \in 0 .. 3 :
           ProcessStorageRequest(chain, access_policy_type)
    \/ \E accessor \in {"user", "mallory"} : validate_access(accessor)
    \/ \E sender \in Accounts : revoke_access(sender)
    \/ \E sender \in Accounts, new_policy_type \in 0 .. 4,
          allowed_addresses \in {{}, {"mallory"}},
          expiry_timestamp \in {0, TickMs} :
           update_access_policy(sender, new_policy_type, allowed_addresses,
                                expiry_timestamp)
    \/ \E sender \in Accounts, paused \in BOOLEAN :
           CoordinatorSetPaused(sender, paused)
    \/ \E sender \in Accounts : add_supported_chain(sender, 0)

Init ==
    /\ InitIngest /\ InitStore /\ InitWorkflow /\ InitFraud /\ InitReceipt
    /\ InitRetrieval /\ InitShutdown /\ InitOrigin /\ InitCoordinator

SpecOrigin == Init /\ [][NextOrigin]_vars

SpecCoordinator == Init /\ [][NextCoordinator]_vars

SpecShutdown == Init /\ [][NextShutdown]_vars

SpecRetrieval == Init /\ [][NextRetrieval]_vars

SpecReceipt == Init /\ [][NextReceipt]_vars

SpecOverlap == Init /\ [][NextOverlap]_vars

SpecFraud == Init /\ [][NextFraud]_vars

SpecIngest == Init /\ [][NextIngest]_vars

\* Bull starts every waiting job once the worker is free, and every awaited
\* call of the handler resolves or rejects
HandlerStep ==
    \/ FraudCheck \/ FraudMarkFailed \/ GetRequest \/ ExternalCall
    \/ UpdateConfirmed \/ CatchUpdate \/ CatchMarkFailed
SpecWorkflowFair ==
    /\ Init
    /\ [][NextWorkflow]_vars
    /\ WF_vars(HandlerStep)
    /\ \A j \in JobIds : WF_vars(JobStart(j))

SpecWorkflow == Init /\ [][NextWorkflow]_vars

(***************************************************************************)
(* Claims on the ingestion path, checked under SpecIngest.                 *)
(***************************************************************************)
IdOf(h) == EventId(h[1], h[2])

\* documents of the request store that belong to a handed event
RequestRecords(h) ==
    IF h[2].type = "StorageRequested"
    THEN IF storageRequests[h[2].requestId] # NoDoc THEN 1 ELSE 0
    ELSE Cardinality({q \in retrievalRequests :
                         q.storageRequestId = h[2].storageRequestId})

\* no callback is inside handleEvent for this event id
Settled(id) ==
    \A d \in Deliveries :
        InHandleEvent(watch[d]) => IdOf(HandedBy(watch[d])) # id

\* C1: for every (chain, eventId) admitted to the events collection, once
\* handleEvent is no longer running for it, exactly one request record exists
\* in the request store and exactly one workflow job has been enqueued.
C1_OneRecordOneJob ==
    \A h \in Handed :
        (events[h] > 0 /\ Settled(IdOf(h))) =>
            (RequestRecords(h) = 1 /\ workflowJobs[h] = 1)

\* C2: of the invocations of handleEvent for one (chain, eventId), however
\* they interleave, at most one writes an event document, and jobs are added
\* only by the invocation whose document was written: the rejected
\* invocations write no document and add no job.
C2_AtMostOneAccepted ==
    /\ \A id \in EventIds : CountDocuments(events, id) <= 1
    /\ \A h \in Handed : /\ workflowJobs[h] <= events[h]
                         /\ fraudJobs[h] <= workflowJobs[h]

\* two invocations for the same event id both passed eventExists; one has
\* written its document, the other is about to call saveEvent
C2_Witness ==
    \E d1, d2 \in Deliveries :
        /\ d1 # d2
        /\ watch[d1].pc = "addJob"
        /\ watch[d2].pc = "save"
        /\ IdOf(HandedBy(watch[d1])) = IdOf(HandedBy(watch[d2]))
        /\ CountDocuments(events, IdOf(HandedBy(watch[d1]))) = 1

\* C3: an event is in handleEvent, in the events collection or in a queue
\* only if its chain's finality threshold is met: Ethereum height at least
\* block number + 12, Solana signature with at least 32 confirmations.
C3_FinalBeforeDownstream ==
    /\ \A d \in Deliveries :
          /\ (IsEth(watch[d]) /\ InHandleEvent(watch[d])) =>
                ethBlock >= EthLog[watch[d].src].blockNumber + 12
          /\ (IsSol(watch[d]) /\ watch[d].pc # "solWait") =>
                solConf[watch[d].src] >= 32
    /\ \A h \in Handed :
          (events[h] > 0 \/ workflowJobs[h] > 0 \/ fraudJobs[h] > 0) =>
             IF h[1] = "ethereum"
             THEN \E l \in EthLogs :
                     /\ EthereumEvent(l) = h[2]
                     /\ ethBlock >= EthLog[l].blockNumber + 12
             ELSE \E s \in SolSignatures : solConf[s] >= 32

\* an Ethereum event is handed over exactly at the threshold while a Solana
\* event is handed over at exactly 32 confirmations
C3_Witness ==
    /\ \E d \in Deliveries :
          /\ IsEth(watch[d]) /\ watch[d].pc = "addJob"
          /\ ethBlock = EthLog[watch[d].src].blockNumber + 12
    /\ \E d \in Deliveries :
          /\ IsSol(watch[d]) /\ InHandleEvent(watch[d])
          /\ solConf[watch[d].src] = 32

\* C4: an event whose source transaction was dropped by a reorganization
\* during the finality wait is discarded: no event document, no job.
C4_ReorgedDiscarded ==
    \A l \in EthLogs :
        EthLog[l].tx \in ethReorged =>
            LET h == <<"ethereum", EthereumEvent(l)>>
            IN  events[h] = 0 /\ workflowJobs[h] = 0 /\ fraudJobs[h] = 0

\* C5: distinct intent logs have distinct event ids: handleEvent finds an
\* event id already present only if a document of this very event was saved.
C5_DistinctLogsDistinctIds ==
    \A d \in Deliveries :
        (watch[d].pc = "exists"
            /\ eventExists(events, IdOf(HandedBy(watch[d])))) =>
        events[HandedBy(watch[d])] > 0

SourceAdmitted(src) ==
    IF src \in EthLogs
    THEN events[<<"ethereum", EthereumEvent(src)>>] > 0
    ELSE \A i \in 1 .. Len(SolEvents(src)) :
            eventExists(events, EventId("solana", SolEvents(src)[i]))

SourceReorged(src) == src \in EthLogs /\ EthLog[src].tx \in ethReorged

\* C6: an RPC error during the finality wait or the transaction fetch never
\* ends the handling of an event: after such an error the event is admitted,
\* or was dropped by a reorganization, or a callback is still working on it.
C6_NoLossOnRpcError ==
    lostToError # None =>
        \/ SourceAdmitted(lostToError)
        \/ SourceReorged(lostToError)
        \/ \E d \in Deliveries : watch[d].src = lostToError

(***************************************************************************)
(* Claims on the storage-request workflow, checked under SpecWorkflow.     *)
(***************************************************************************)
StatusOrder == << "pending", "uploaded", "stored", "proof_generated",
                  "confirmed" >>
Rank(st) == CHOOSE i \in 1 .. Len(StatusOrder) : StatusOrder[i] = st
Terminal == {"confirmed", "failed"}

StepAllowed(a, b) ==
    \/ a = b
    \/ a = "absent"
    \/ b = "failed" /\ a \notin Terminal
    \/ /\ a # "failed" /\ b # "failed"
       /\ Rank(b) = Rank(a) + 1

\* C7: every change of a request's persisted status goes to the immediate
\* successor in pending, uploaded, stored, proof_generated, confirmed, or to
\* failed from a non-terminal status.
C7_NoSkippedStatus ==
    [][\A r \in WorkflowRequests :
          StepAllowed(storageRequests[r].status, storageRequests'[r].status)]_vars

\* C8: confirmed and failed are absorbing: no step changes the status of a
\* request that is confirmed or failed.
C8_TerminalAbsorbing ==
    [][\A r \in WorkflowRequests :
          storageRequests[r].status \in Terminal =>
             storageRequests'[r].status = storageRequests[r].status]_vars

\* C9: a request whose persisted status is failed has had markFailed
\* attempted on its origin chain, or the handler that wrote the status is
\* about to attempt it.
C9_FailedHasMarkFailed ==
    \A r \in WorkflowRequests :
        storageRequests[r].status = "failed" =>
            \/ markFailedCalls[r] >= 1
            \/ handler.pc = "catchMark" /\ Req = r

\* the catch block wrote failed, attempted markFailed and the handler ended
C9_Witness ==
    \E r \in WorkflowRequests :
        /\ storageRequests[r].status = "failed"
        /\ markFailedCalls[r] = 1
        /\ handler = IdleHandler

\* C10: for a request that has failed (status failed, handler ended),
\* markFailed was attempted exactly once over all executions of its jobs.
C10_MarkFailedOnce ==
    \A r \in WorkflowRequests :
        (storageRequests[r].status = "failed" /\ handler = IdleHandler) =>
            markFailedCalls[r] = 1

\* C11: when the fraud gate answers true for a stored request, the handler
\* issues markFailed, runs none of the later steps, and ends with the
\* request's persisted status failed.
C11_FraudRoutesToFailed ==
    [][(handler.pc = "fraudMark" /\ storageRequests[Req] # NoDoc
            /\ handler' # handler) =>
          /\ markFailedCalls'[Req] = markFailedCalls[Req] + 1
          /\ handler'.pc \notin (ExternalSteps \cup {"getRequest", "updateConfirmed"})
          /\ (handler'.pc = "idle" => storageRequests'[Req].status = "failed")]_vars

\* C13: a failure of markFailed is never thrown into the job: on the fraud
\* path the handler returns and the job completes whether markFailed
\* succeeded or failed.
C13_MarkFailedNeverRethrown ==
    [][(handler.pc = "fraudMark" /\ handler' # handler) =>
          /\ handler' = IdleHandler
          /\ jobs'[handler.job].state = "completed"]_vars

\* C14: when withdrawPayment or bridgeToSui throws after the receipt was
\* written back, the handler neither sets the status to failed nor sends
\* markFailed.
C14_BridgeFailureKeepsConfirmed ==
    [][(handler.error \in {"withdraw", "bridge"} /\ handler' # handler) =>
          /\ storageRequests'[Req].status # "failed"
          /\ markFailedCalls' = markFailedCalls]_vars

\* C15: when the handler finds no uploaded ciphertext on an attempt that is
\* not the last one, it neither sets the status to failed nor sends
\* markFailed.
C15_NotUploadedIsRetryable ==
    [][(handler.error = "notUploaded" /\ handler' # handler
            /\ jobs[handler.job].attemptsMade + 1 < attempts) =>
          /\ storageRequests'[Req].status # "failed"
          /\ markFailedCalls' = markFailedCalls]_vars

\* C16: createReceipt is invoked only for a request whose persisted status
\* is proof_generated.
C16_ReceiptOnlyAfterProofGenerated ==
    [][(handler.pc = "receipt" /\ handler' # handler) =>
          storageRequests[Req].status = "proof_generated"]_vars

\* C17: a step that already completed for a request is not executed again
\* by a later attempt or job: walrusClient.store runs only for a request
\* whose ciphertext is not yet on Walrus.
C17_NoStepRepeated ==
    [][(handler.pc = "store" /\ handler' # handler) =>
          Req \notin walrusBlobs]_vars

\* C18: the handler makes no call to the storage backend, the proof service,
\* the coordinator or the origin chain for a request that is already
\* confirmed or failed.
C18_TerminalRerunIsNoOp ==
    [][(handler.pc \in ExternalSteps /\ handler' # handler) =>
          storageRequests[Req].status \notin Terminal]_vars

\* C19: a status write is a compare-and-set: when the persisted status is a
\* terminal one that differs from the status an execution read at its start,
\* so that the other execution wrote it meanwhile, the write of this
\* execution leaves it in place.
C19_NoLostUpdate ==
    [][\A c \in Consumers :
          (/\ executions[c].pc \in {"updateConfirmed", "catchUpdate"}
           /\ executions'[c] # executions[c]
           /\ executions[c].read # None
           /\ storageRequests[OverlapRequest].status \in Terminal
           /\ storageRequests[OverlapRequest].status # executions[c].read) =>
             storageRequests'[OverlapRequest].status =
                storageRequests[OverlapRequest].status]_vars

\* C20: a job is attempted at most 3 times; the first retry waits the
\* 2000 ms base delay and the next one at least twice as long; after the
\* last attempt the job is in the failed state, and the consumer is free to
\* start any waiting job of the queue.
C20_BoundedRetries ==
    /\ \A j \in JobIds :
          /\ jobs[j].attemptsMade <= 3
          /\ jobs[j].state = "failed" <=> jobs[j].attemptsMade = 3
          /\ (jobs[j].state = "waiting" /\ jobs[j].attemptsMade = 1) =>
                jobs[j].delay = 2000
          /\ (jobs[j].state = "waiting" /\ jobs[j].attemptsMade = 2) =>
                jobs[j].delay >= 2 * 2000
    /\ \A j, k \in JobIds :
          (jobs[j].state = "failed" /\ jobs[k].state = "waiting"
              /\ handler = IdleHandler) => ENABLED JobStart(k)

\* one job failed its third attempt and the consumer has started another
C20_Witness ==
    \E j, k \in JobIds :
        /\ jobs[j].state = "failed" /\ jobs[j].attemptsMade = 3
        /\ jobs[k].state = "active" /\ handler.job = k /\ handler.pc = "fraud"

(***************************************************************************)
(* Claims on the fraud gate, checked under SpecFraud.                      *)
(***************************************************************************)
\* another request of the same user with the same dataHash was stored
\* within the replay window
PriorDuplicate(q) ==
    \E i \in DOMAIN userRequests :
        /\ userRequests[i].requestId # q
        /\ userRequests[i].user = FraudData[q].user
        /\ userRequests[i].dataHash = FraudData[q].dataHash
        /\ clock - userRequests[i].createdAt.ms <= ReplayWindow

\* C12: the fraud gate answers true for a request whose user stored the
\* same dataHash in another request within the replay window, and it flags
\* a request as a duplicate only then, never because of its own record.
C12_ReplayFlagsSecondOnly ==
    [][\A q \in FraudRequests :
          verdict'[q] # verdict[q] =>
             /\ (PriorDuplicate(q) => verdict'[q] # "clean")
             /\ (verdict'[q] = "replay" => PriorDuplicate(q))]_vars

\* C29: walrusClient.store hands a blobId to the steps after it only when the
\* bytes read back for the new blob hash to the hash of the bytes handed in;
\* a different digest or a failed read makes store throw
C29_StoreVerifiedRoundTrip ==
    handler.pc \in (ExternalSteps \ {"store"}) \cup {"updateConfirmed"}
        => /\ handler.readBack # "readError"
           /\ computeHash(handler.readBack) = computeHash(Ciphertext)

C29_Witness ==
    /\ handler.pc = "proof"
    /\ handler.readBack = Ciphertext
    /\ Req \in walrusBlobs

\* C30: within one job execution the external calls start in the order fraud
\* gate, store, proof, coordinator, receipt, origin-chain writeback, payment
\* withdrawal and bridge, each only after the one before it resolved
StepOrder ==
    {<< "fraud", "getRequest" >>, << "getRequest", "store" >>,
     << "store", "proof" >>, << "proof", "coordinator" >>,
     << "coordinator", "receipt" >>, << "receipt", "submit" >>,
     << "submit", "withdraw" >>, << "withdraw", "bridge" >>}
C22_NoRequestStuck ==
    \A r \in admitted :
        storageRequests[r] # NoDoc =>
            \/ storageRequests[r].status \in Terminal
            \/ \E j \in JobIds : /\ jobs[j].requestId = r
                                  /\ jobs[j].state \in {"waiting", "active"}

\* C21: an execution for an admitted request that passed the fraud gate and
\* found the ciphertext ends with the record confirmed, carrying the blob id
\* and coordinator transaction of that execution, unless store, proof,
\* coordinator, receipt or the origin-chain writeback threw or a later
\* attempt was stopped by the fraud gate
ListedCalls == {"store", "proof", "coordinator", "receipt", "submit"}
C21_HappyPathConfirmed ==
    \A j \in JobIds :
        (handler.job = j /\ handler.pc = "store"
            /\ jobs[j].requestId \in admitted)
        ~> \/ /\ jobs[j].requestId \in WorkflowRequests
              /\ storageRequests[jobs[j].requestId].status = "confirmed"
              /\ storageRequests[jobs[j].requestId].walrusBlobId = j
              /\ storageRequests[jobs[j].requestId].suiTxHash = j
           \/ handler.job = j /\ handler.error \in ListedCalls
           \/ handler.job = j /\ handler.pc = "fraudMark"

\* the inputs a receipt was created from
InputsOf(rc) ==
    [requestId |-> rc.requestId, walrusBlobId |-> rc.walrusBlobId,
     suiTxHash |-> rc.suiTxHash, dataHash |-> rc.dataHash,
     zkProof |-> rc.zkProof]

\* C25: two receipts created from identical inputs are identical, signatures
\* included
C25_CreateReceiptDeterministic ==
    \A a, b \in receipts : InputsOf(a) = InputsOf(b) => a = b

\* C26: every receipt carries one signature for each destination chain kind
\* the relayer writes receipts back to
ChainKinds == {"evm", "solana", "sui"}
C26_OneSignaturePerChainKind ==
    \A rc \in receipts : DOMAIN rc.signatures = ChainKinds

\* C27: the verifyReceipt transaction of a receipt signed with the relayer
\* key does not revert while the on-chain request is pending
C27_SignedReceiptAccepted ==
    \A rc \in reverted : rc.signatures.evm.signer # RelayerAddress

C24_AccessCheckedBeforeFetch ==
    (rhandler.retrieved # None \/ retrieval.status = "completed")
        => rhandler.accessAllowed = "allowed"

\* C28: once the shutdown function has started, no listener callback starts
\* for a new event, no event document is written and no job is added
C28_NoNewEventsAfterShutdown ==
    [][shutdown # "running"
         => /\ \A d \in Deliveries : watch[d] = Idle => watch'[d] = Idle
            /\ events' = events
            /\ workflowJobs' = workflowJobs
            /\ fraudJobs' = fraudJobs]_vars

(***************************************************************************)
(* Claims on the origin contracts, checked under SpecOrigin.               *)
(***************************************************************************)
\* the request ids initiateStorage has issued so far
IssuedIds == NameableIds \ {toUtf8Bytes("r1")}

StatusEdges ==
    {<< "Pending", "Confirmed" >>, << "Pending", "Failed" >>,
     << "Confirmed", "Revoked" >>}

Refunded(id) ==
    IF refunds[id] = << >> THEN 0
    ELSE refunds[id][1].amount +
         (IF Len(refunds[id]) > 1 THEN refunds[id][2].amount ELSE 0)

\* C32: a request is refunded at most once, to its user, exactly its
\* recorded payment; the total refunded is 0 or the payment, it is the
\* payment exactly when the request is Failed, and a Confirmed or Revoked
\* request is never refunded.
C32_RefundExactlyWhenFailed ==
    \A id \in IssuedIds :
        /\ Len(refunds[id]) <= 1
        /\ \A i \in 1 .. Len(refunds[id]) :
               /\ refunds[id][i].to = requests[id].user
               /\ refunds[id][i].amount = requests[id].payment
        /\ Refunded(id) = requests[id].payment <=>
               requests[id].status = "Failed"

\* C33: only the configured relayer, as caller or as signer of the receipt
\* submitted, makes a request Confirmed or Failed, and only the request's
\* user makes it Revoked.
C33_OnlyRelayerOrUser ==
    [][\A id \in RequestIds :
           requests'[id].status # requests[id].status =>
               /\ requests'[id].status \in {"Confirmed", "Failed"} =>
                      authorisedBy'[id] = contract.relayer
               /\ requests'[id].status = "Revoked" =>
                      authorisedBy'[id] = requests[id].user]_vars

\* a receipt signed by the relayer confirmed one request, the relayer failed
\* another, and the user revoked the first
C33_Witness ==
    /\ contract.variant = "evmReceipt"
    /\ contract.relayer = RelayerAddress
    /\ \E a, b \in IssuedIds :
           /\ requests[a].status = "Revoked" /\ authorisedBy[a] = "user"
           /\ requests[b].status = "Failed"
           /\ authorisedBy[b] = RelayerAddress

\* the payments of the requests that are Pending
RECURSIVE SumPending(_)
SumPending(ids) ==
    IF ids = {} THEN 0
    ELSE LET id == CHOOSE x \in ids : TRUE
         IN  (IF requests[id].status = "Pending"
              THEN requests[id].payment ELSE 0) + SumPending(ids \ {id})

\* C35: a contract that keeps the payments holds at least the sum of the
\* payments of its Pending requests, so that markFailed never fails for
\* lack of funds.
C35_FundsCoverPending ==
    contract.variant \in VaultVariants =>
        contract.balance >= SumPending(IssuedIds)

\* C36: in the EVM contract only a request that initiateStorage created
\* changes status; a call with a request id that was never issued changes
\* nothing.
C36_UnknownIdRejected ==
    [][contract.variant \in EvmVariants =>
           \A id \in RequestIds \ IssuedIds :
               id \notin {requestIdOf(n) : n \in 1 .. contract'.count} =>
                   requests'[id] = requests[id]]_vars

(***************************************************************************)
(* Claims on the coordinator, checked under SpecCoordinator.               *)
(***************************************************************************)
\* the accessors a policy admits at time now
Admits(policy, accessor, now) ==
    /\ ~(policy.expiry_timestamp > 0 /\ now > policy.expiry_timestamp)
    /\ \/ policy.policy_type = ACCESS_POLICY_PUBLIC
       \/ policy.policy_type = ACCESS_POLICY_PRIVATE /\
          accessor = policy.owner
       \/ policy.policy_type = ACCESS_POLICY_WHITELIST /\
          accessor \in policy.allowed_addresses \cup {policy.owner}

\* C34: the coordinator grants access (has_access answers true, or
\* validate_access shares a retrieval record) only while the storage
\* request is Confirmed and its policy admits the accessor: anyone under a
\* public policy, the owner under a private one, a listed address or the
\* owner under a whitelist, nobody once the policy expired or under a
\* token-gated one; after the owner revoked, nobody.
C34_AccessOnlyConfirmedAndAdmitted ==
    [][/\ \A accessor \in Accounts :
              coordRequest.status # "absent" /\
              has_access(coordRequest, accessor, clock) =>
                  /\ coordRequest.status = "Confirmed"
                  /\ Admits(coordRequest.access_policy, accessor, clock)
       /\ \A record \in retrievalRecords' \ retrievalRecords :
              /\ coordRequest.status = "Confirmed"
              /\ Admits(coordRequest.access_policy, record.accessor, clock)
      ]_vars

\* a listed address retrieved under a whitelist, and the owner revoked
\* afterwards
C34_Witness ==
    /\ coordRequest.status = "Revoked"
    /\ coordRequest.access_policy.policy_type = ACCESS_POLICY_WHITELIST
    /\ \E record \in retrievalRecords : record.accessor = "mallory"

\* the chain each coordinator constant denotes
ChainDenoted(chain_id) ==
    CASE chain_id = CHAIN_ETHEREUM -> "ethereum"
      [] chain_id = CHAIN_SOLANA -> "solana"
      [] chain_id = CHAIN_SUI -> "sui"
      [] OTHER -> None

\* C40: every origin chain the relayer processes is passed to the
\* coordinator as a chain id that the coordinator lists as supported and
\* that denotes the same chain.
C40_ChainIdsAgree ==
    submission.originChain # None =>
        /\ submission.error # "EInvalidChain"
        /\ ChainDenoted(coordRequest.origin_chain) = submission.originChain

\* C38: recording an event in the events collection and enqueueing its
\* workflow job are not separable, a crash between saveEvent and queue.add
\* and a later re-delivery included: every recorded event has its job
\* enqueued once no invocation of handleEvent is running for its id.
C38_RecordedEventHasJob ==
    \A h \in Handed :
        (events[h] > 0 /\ Settled(IdOf(h))) => workflowJobs[h] >= 1

(***************************************************************************)
(* Claims that join the workflow with the origin chain, checked under      *)
(* SpecWorkflow.                                                           *)
(***************************************************************************)
\* C37: a request is confirmed only if the hash of the ciphertext that was
\* stored equals the dataHash recorded from its on-chain event, so that a
\* later retrieval passes the integrity check against that dataHash.
C37_ConfirmedOnlyIfHashMatches ==
    \A r \in admitted :
        storageRequests[r].status = "confirmed" =>
            computeHash(Ciphertext) = eventDataHash[r]

\* C39: when an execution of the workflow ends, the request store shows
\* confirmed only if the origin contract accepted the receipt and failed
\* only if the origin contract's request is not Confirmed.
C39_StoresAgreeAtEnd ==
    [][(handler # IdleHandler /\ handler' = IdleHandler) =>
           \A r \in WorkflowRequests :
               jobs[handler.job].requestId = r =>
                   (/\ storageRequests'[r].status = "confirmed" =>
                           r \in originConfirmed'
                    /\ storageRequests'[r].status = "failed" =>
                           r \notin originConfirmed')]_vars

====
